---- MODULE Spec2Model ----
(***************************************************************************)
(* Model of interface/dev/gcode_generator.py: the GCode emitter (class     *)
(* GCode) and the scanline vectorizer that drives it (class Generator).    *)
(*                                                                         *)
(* Spec        one run of Generator.generate() over a raster, one step per *)
(*             iteration of the inner loop of Generator.run().             *)
(* SpecEmitter a freshly constructed GCode object receiving an arbitrary   *)
(*             sequence of calls of its public methods; its output         *)
(*             callback collects the lines of one call at a time.          *)
(***************************************************************************)
EXTENDS Integers, Sequences, FiniteSets, TLC

VARIABLES
    image,        \* Generator.image: the raster, rows of samples
    rows,         \* Generator.rows
    cols,         \* Generator.cols
    pre_script,   \* GCode.pre_script
    post_script,  \* GCode.post_script
    pc,           \* position in generate(): "init", "run", "done"
    row,          \* loop variable of run()
    col,          \* loop variable of run()
    recording,    \* local flag of run()
    gcodes,       \* the list the output callback appends to
    last_x,       \* GCode.last_x
    last_y,       \* GCode.last_y
    last_z,       \* GCode.last_z
    last_f,       \* GCode.last_f
    last_gcode,   \* GCode.last_gcode
    calls         \* history: the emitter calls made, with their arguments

vars == <<image, rows, cols, pre_script, post_script, pc, row, col, recording,
          gcodes, last_x, last_y, last_z, last_f, last_gcode, calls>>

scan_vars == <<image, rows, cols, pre_script, post_script, row, col, recording>>

emitter_vars == <<last_x, last_y, last_z, last_f, last_gcode>>

-----------------------------------------------------------------------------
(* Bounds of the model *)

MaxRows == 2
MaxCols == 3
MaxCoord == 1
SampleFeed == 300

(* Values of the program *)

OFF == 0
ON == 255
TOUCH_DOWN == 0
DRAW == 1
safety_height == 1

\* Python's None and a present value
None == <<>>
Some(v) == <<v>>

Samples == {OFF, ON}
PreScripts == {"", "G21"}
PostScripts == {"", "M2"}

Coords == {Some(v) : v \in 0..MaxCoord}
Heights == {Some(TOUCH_DOWN), Some(DRAW)}
Feeds == {Some(SampleFeed)}
Opt(S) == S \cup {None}

\* every shape numpy allows for a 2-D array, the empty ones included
Rasters(r, c) == [1..r -> [1..c -> Samples]]

-----------------------------------------------------------------------------
(* class GCode *)

\* "%.4f" % v, for an integral v
Fmt4(v) == ToString(v) \o ".0000"

\* "".join(parts): empty strings contribute nothing
Join(parts) == SelectSeq(parts, LAMBDA s : s # "")

\* a piece of text as the parts of a line
Text(s) == Join(<<s>>)

\* output=lambda cmd: gcodes.append(cmd+"\r\n")
Write(out, cmd) == Append(out, cmd \o <<"\r\n">>)

\* if _v == None: _v = self.last_v
Subst(_v, last) == IF _v = None THEN last ELSE _v

\* if _v != self.last_v
Changed(v, last) == v # last

\* string_v = " L%.4f" % _v when the field changed, "" otherwise
FieldString(letter, v, last) ==
    IF Changed(v, last) THEN letter \o Fmt4(v[1]) ELSE ""

\* the argument draw() hands to move_common as _z
DrawHeight(_z) == Some(1)

\* (variant) the Y part is joined before the X part
Command_YBeforeX(gcode_string, string_x, string_y, string_z, string_f) ==
    Join(<<gcode_string, string_y, string_x, string_z, string_f>>)

\* the order in which the parts of an instruction are joined
Command(gcode_string, string_x, string_y, string_z, string_f) ==
    Join(<<gcode_string, string_x, string_y, string_z, string_f>>)

\* the lines begin() writes
BeginLines(out) == Write(Write(out, Text(pre_script)), <<"M90 X0.0000 Y0.0000">>)

\* (variant) the postamble is written before the program stop
EndLines_Swapped(out) == Write(Write(out, Text(post_script)), <<"M100">>)

\* the lines end() writes
EndLines(out) == Write(Write(out, <<"M100">>), Text(post_script))

\* GCode.__init__
NewGCode ==
    /\ last_x = None
    /\ last_y = None
    /\ last_z = None
    /\ last_f = None
    /\ last_gcode = None

\* GCode.move_common, writing after the lines of out
MoveCommon(out, _x, _y, _z, _f, gcode) ==
    LET x == Subst(_x, last_x)
        y == Subst(_y, last_y)
        z == Subst(_z, last_z)
        f == Subst(_f, last_f)
        string_x == FieldString(" X", x, last_x)
        string_y == FieldString(" Y", y, last_y)
        string_z == FieldString(" Z", z, last_z)
        string_f == FieldString(" F", f, last_f)
        silent == string_x = "" /\ string_y = "" /\ string_z = "" /\ string_f = ""
        command == Command(gcode, string_x, string_y, string_z, string_f)
    IN  /\ last_x' = IF Changed(x, last_x) THEN x ELSE last_x
        /\ last_y' = IF Changed(y, last_y) THEN y ELSE last_y
        /\ last_z' = IF Changed(z, last_z) THEN z ELSE last_z
        /\ last_f' = IF Changed(f, last_f) THEN f ELSE last_f
        /\ last_gcode' = IF silent THEN last_gcode ELSE Some(gcode)
        /\ gcodes' = IF silent \/ command = <<>> THEN out ELSE Write(out, command)

\* GCode.move_rapid
MoveRapid(out, _x, _y, _z, _f) == MoveCommon(out, _x, _y, _z, _f, "G0")

\* (variant) the retraction is written as a drawing move
Safety_AsDraw(out) == MoveCommon(out, None, None, Some(safety_height), None, "G1")

\* GCode.safety
Safety(out) == MoveRapid(out, None, None, Some(safety_height), None)

\* (variant) the drawing move is written with the rapid mnemonic
Draw_AsRapid(out, _x, _y, _z) == MoveCommon(out, _x, _y, DrawHeight(_z), None, "G0")

\* GCode.draw
Draw(out, _x, _y, _z) == MoveCommon(out, _x, _y, DrawHeight(_z), None, "G1")

\* (variant) the origin reset also records (0, 0) as the tracked position
Begin_SetsOrigin(out) ==
    /\ gcodes' = BeginLines(out)
    /\ last_x' = Some(0)
    /\ last_y' = Some(0)
    /\ UNCHANGED <<last_z, last_f, last_gcode>>

\* GCode.begin
Begin(out) ==
    /\ gcodes' = BeginLines(out)
    /\ UNCHANGED emitter_vars

\* GCode.end
End(out) ==
    /\ gcodes' = EndLines(out)
    /\ UNCHANGED emitter_vars

\* the record of one call: the method, its arguments as given, and the number
\* of lines it appended to out
Call(out, op, _x, _y, _z, _f) ==
    [op |-> op, x |-> _x, y |-> _y, z |-> _z, f |-> _f,
     n |-> Len(gcodes') - Len(out)]

-----------------------------------------------------------------------------
(* class Generator *)

\* self.image[r][c], 0-based
Pixel(r, c) == image[r + 1][c + 1]

\* self.image[r][c] raises IndexError: c is past the last column
IndexError(r, c) == c >= cols

\* (variant) the current sample is tested instead of the next one
ClosesRun_NoLookahead(r, c) == Pixel(r, c) = OFF

\* the lookahead of the recording branch closes the run: the sample at col+1
\* is off, or reading it raises IndexError
ClosesRun(r, c) == IF IndexError(r, c + 1) THEN TRUE ELSE Pixel(r, c + 1) = OFF

\* (variant) the polarity of the test is inverted
OpensRun_Inverted(r, c) == Pixel(r, c) = OFF

\* the sample that opens a run
OpensRun(r, c) == Pixel(r, c) = ON

\* for row in range(rows): for col in range(cols): an iteration is left to run
Scanning == pc = "run" /\ row < rows /\ col < cols

\* the loops are exhausted (also when rows or cols is 0)
ScanOver == pc = "run" /\ (row >= rows \/ cols = 0)

\* the loop variables of the next iteration
Advance ==
    IF col + 1 < cols
    THEN row' = row /\ col' = col + 1
    ELSE row' = row + 1 /\ col' = 0

\* Generator.__init__: rows, cols = image.shape
NewGenerator ==
    /\ rows \in 0..MaxRows
    /\ cols \in 0..MaxCols
    /\ image \in Rasters(rows, cols)
    /\ pre_script \in PreScripts
    /\ post_script \in PostScripts
    /\ pc = "init"
    /\ row = 0
    /\ col = 0
    /\ recording = FALSE
    /\ gcodes = <<>>
    /\ calls = <<>>
    /\ NewGCode


\* generate(): the emitter is created, begin() is called and run() is entered
GenerateBegin ==
    /\ pc = "init"
    /\ NewGCode
    /\ Begin(gcodes)
    /\ recording' = FALSE
    /\ row' = 0
    /\ col' = 0
    /\ pc' = "run"
    /\ UNCHANGED <<image, rows, cols, pre_script, post_script, calls>>

\* run(): one iteration with recording set; the lookahead closes the run
RunClose ==
    /\ Scanning
    /\ recording
    /\ ClosesRun(row, col)
    /\ Draw(gcodes, Some(col), Some(row), Some(DRAW))
    /\ calls' = Append(calls, Call(gcodes, "draw", Some(col), Some(row), Some(DRAW), None))
    /\ recording' = FALSE
    /\ Advance
    /\ UNCHANGED <<image, rows, cols, pre_script, post_script, pc>>

\* run(): one iteration with recording set; the next sample continues the run
RunContinue ==
    /\ Scanning
    /\ recording
    /\ ~ClosesRun(row, col)
    /\ Advance
    /\ UNCHANGED <<image, rows, cols, pre_script, post_script, pc, recording,
                   gcodes, calls>>
    /\ UNCHANGED emitter_vars

\* run(): one iteration with recording clear; an on sample opens a run
RunOpen ==
    /\ Scanning
    /\ ~recording
    /\ OpensRun(row, col)
    /\ MoveCommon(gcodes, Some(col), Some(row), Some(TOUCH_DOWN), None, "G1")
    /\ calls' = Append(calls, Call(gcodes, "move_common", Some(col), Some(row),
                                   Some(TOUCH_DOWN), None))
    /\ recording' = TRUE
    /\ Advance
    /\ UNCHANGED <<image, rows, cols, pre_script, post_script, pc>>

\* run(): one iteration with recording clear; the sample is not on
RunSkip ==
    /\ Scanning
    /\ ~recording
    /\ ~OpensRun(row, col)
    /\ Advance
    /\ UNCHANGED <<image, rows, cols, pre_script, post_script, pc, recording,
                   gcodes, calls>>
    /\ UNCHANGED emitter_vars

\* generate(): run() has returned; end() is called and gcodes is returned
GenerateEnd ==
    /\ ScanOver
    /\ End(gcodes)
    /\ pc' = "done"
    /\ UNCHANGED <<image, rows, cols, pre_script, post_script, row, col,
                   recording, calls>>

Init == NewGenerator

Next ==
    \/ GenerateBegin
    \/ RunClose
    \/ RunContinue
    \/ RunOpen
    \/ RunSkip
    \/ GenerateEnd

Spec == Init /\ [][Next]_vars

-----------------------------------------------------------------------------
(* generate() over the rasters of the shape of the documented scenario *)

\* the raster of the scenario [[0,255,255,0],[0,0,0,0]]
ScenarioImage == << <<OFF, ON, ON, OFF>>, <<OFF, OFF, OFF, OFF>> >>

\* Generator.__init__ for an image of the scenario's shape
InitScenario ==
    /\ rows = Len(ScenarioImage)
    /\ cols = Len(ScenarioImage[1])
    /\ image \in Rasters(rows, cols)
    /\ pre_script \in PreScripts
    /\ post_script \in PostScripts
    /\ pc = "init"
    /\ row = 0
    /\ col = 0
    /\ recording = FALSE
    /\ gcodes = <<>>
    /\ calls = <<>>
    /\ NewGCode

SpecScenario == InitScenario /\ [][Next]_vars

-----------------------------------------------------------------------------
(* A bare emitter driven through its public methods.  The caller's output  *)
(* callback appends to a list the caller empties before each call, so       *)
(* gcodes holds the lines of the latest call and calls its record.          *)

\* GCode(...) constructed on its own
InitEmitter ==
    /\ rows = 0
    /\ cols = 0
    /\ image = <<>>
    /\ pre_script = "G21"
    /\ post_script = "M2"
    /\ pc = "init"
    /\ row = 0
    /\ col = 0
    /\ recording = FALSE
    /\ gcodes = <<>>
    /\ calls = <<>>
    /\ NewGCode

CallBegin ==
    /\ Begin(<<>>)
    /\ calls' = <<Call(<<>>, "begin", None, None, None, None)>>
    /\ UNCHANGED <<scan_vars, pc>>

CallEnd ==
    /\ End(<<>>)
    /\ calls' = <<Call(<<>>, "end", None, None, None, None)>>
    /\ UNCHANGED <<scan_vars, pc>>

CallMoveCommon ==
    /\ \E _x \in Opt(Coords), _y \in Opt(Coords), _z \in Opt(Heights), _f \in Opt(Feeds) :
          /\ MoveCommon(<<>>, _x, _y, _z, _f, "G1")
          /\ calls' = <<Call(<<>>, "move_common", _x, _y, _z, _f)>>
    /\ UNCHANGED <<scan_vars, pc>>

CallMoveRapid ==
    /\ \E _x \in Opt(Coords), _y \in Opt(Coords), _z \in Opt(Heights), _f \in Opt(Feeds) :
          /\ MoveRapid(<<>>, _x, _y, _z, _f)
          /\ calls' = <<Call(<<>>, "move_rapid", _x, _y, _z, _f)>>
    /\ UNCHANGED <<scan_vars, pc>>

CallDraw ==
    /\ \E _x \in Opt(Coords), _y \in Opt(Coords), _z \in Opt(Heights) :
          /\ Draw(<<>>, _x, _y, _z)
          /\ calls' = <<Call(<<>>, "draw", _x, _y, _z, None)>>
    /\ UNCHANGED <<scan_vars, pc>>

CallSafety ==
    /\ Safety(<<>>)
    /\ calls' = <<Call(<<>>, "safety", None, None, None, None)>>
    /\ UNCHANGED <<scan_vars, pc>>

NextEmitter ==
    \/ CallBegin
    \/ CallEnd
    \/ CallMoveCommon
    \/ CallMoveRapid
    \/ CallDraw
    \/ CallSafety

SpecEmitter == InitEmitter /\ [][NextEmitter]_vars

-----------------------------------------------------------------------------
(* Vocabulary of the properties *)

\* a line of the stream is a positioning instruction
IsPositioning(line) == Head(line) \in {"G0", "G1"}

\* the framing lines, as text
PreambleLine == IF pre_script = "" THEN <<"\r\n">> ELSE <<pre_script, "\r\n">>
OriginResetLine == <<"M90 X0.0000 Y0.0000", "\r\n">>
ProgramStopLine == <<"M100", "\r\n">>
PostambleLine == IF post_script = "" THEN <<"\r\n">> ELSE <<post_script, "\r\n">>

\* the numbers a field of an instruction can carry in this model
FieldNumbers == (0..(MaxCoord + MaxRows + MaxCols)) \cup {TOUCH_DOWN, DRAW, SampleFeed}

\* the instruction carries a field with this letter
HasLetter(line, letter) ==
    \E i \in 2..Len(line), v \in FieldNumbers :
        line[i] = " " \o letter \o ToString(v) \o ".0000"

\* the instruction carries this letter with this number
HasField(line, letter, v) ==
    \E i \in 2..Len(line) : line[i] = " " \o letter \o ToString(v) \o ".0000"

\* the positions of the raster
Positions == (0..(rows - 1)) \X (0..(cols - 1))

\* the on samples of the raster
OnPositions == {p \in Positions : Pixel(p[1], p[2]) = ON}

\* the first samples of the maximal horizontal runs of on samples
RunStarts ==
    {p \in OnPositions : p[2] = 0 \/ Pixel(p[1], p[2] - 1) = OFF}

\* the positioning instructions between the origin reset and the program stop
BodyPositioning == {i \in 3..(Len(gcodes) - 2) : IsPositioning(gcodes[i])}

\* the calls the scan has made for row r, in order
CallsOfRow(r) == SelectSeq(calls, LAMBDA c : c.y = Some(r))

\* the latest call of a bare emitter, after a step
Latest == calls'[1]

\* the value a call means for a field: the one given, or the last one emitted
Effective(given, last) == IF given = None THEN last ELSE given

-----------------------------------------------------------------------------
(* Properties *)

\* C1: when generate() has returned, the number of positioning instructions
\* between the origin reset and the program stop is exactly twice the number
\* of maximal horizontal runs of on samples of the raster.
C1_TwoPerRun ==
    pc = "done" => Cardinality(BodyPositioning) = 2 * Cardinality(RunStarts)

\* C2: for every call of move_common, move_rapid or draw, with each field's
\* effective value being the given one or else the last emitted one, a field
\* appears in the emitted instruction exactly when its effective value differs
\* from the last emitted value; no differing field means no line, otherwise
\* exactly one line is appended.
C2_FieldIffChanged ==
    [][(calls' # <<>> /\ Latest.op \in {"move_common", "move_rapid", "draw"}) =>
        LET dx == Effective(Latest.x, last_x) # last_x
            dy == Effective(Latest.y, last_y) # last_y
            dz == Effective(Latest.z, last_z) # last_z
            df == Effective(Latest.f, last_f) # last_f
        IN  IF ~(dx \/ dy \/ dz \/ df)
            THEN gcodes' = <<>>
            ELSE /\ Len(gcodes') = 1
                 /\ IsPositioning(gcodes'[1])
                 /\ dx <=> HasLetter(gcodes'[1], "X")
                 /\ dy <=> HasLetter(gcodes'[1], "Y")
                 /\ dz <=> HasLetter(gcodes'[1], "Z")
                 /\ df <=> HasLetter(gcodes'[1], "F")
      ]_vars

\* C2, without draw(): the statement holds of move_common and move_rapid.
C2_HoldsForMoves ==
    [][(calls' # <<>> /\ Latest.op \in {"move_common", "move_rapid"}) =>
        LET dx == Effective(Latest.x, last_x) # last_x
            dy == Effective(Latest.y, last_y) # last_y
            dz == Effective(Latest.z, last_z) # last_z
            df == Effective(Latest.f, last_f) # last_f
        IN  IF ~(dx \/ dy \/ dz \/ df)
            THEN gcodes' = <<>>
            ELSE /\ Len(gcodes') = 1
                 /\ IsPositioning(gcodes'[1])
                 /\ dx <=> HasLetter(gcodes'[1], "X")
                 /\ dy <=> HasLetter(gcodes'[1], "Y")
                 /\ dz <=> HasLetter(gcodes'[1], "Z")
                 /\ df <=> HasLetter(gcodes'[1], "F")
      ]_vars

\* C3: the stream only grows by appending; no positioning instruction is among
\* its first two lines; and when generate() has returned the stream is the
\* pre-amble, one origin reset, positioning instructions only, one program
\* stop and the postamble, in this order.
C3_StreamShape ==
    /\ [][/\ Len(gcodes') >= Len(gcodes)
          /\ SubSeq(gcodes', 1, Len(gcodes)) = gcodes]_vars
    /\ [](\A i \in 1..Len(gcodes) : IsPositioning(gcodes[i]) => i > 2)
    /\ [](pc = "done" =>
            /\ Len(gcodes) >= 4
            /\ gcodes[1] = PreambleLine
            /\ gcodes[2] = OriginResetLine
            /\ \A i \in 3..(Len(gcodes) - 2) : IsPositioning(gcodes[i])
            /\ gcodes[Len(gcodes) - 1] = ProgramStopLine
            /\ gcodes[Len(gcodes)] = PostambleLine)

\* C3 witness: generate() has returned a stream with positioning instructions
C3_Witness == pc = "done" /\ Len(gcodes) >= 6

\* C4: a second begin(), a positioning call made before begin() and a
\* positioning call made after end() append nothing to the stream (they fail
\* with a ProtocolSequenceError).  Stated on the calls a bare emitter sees
\* next to each other: begin() right after begin(), a positioning call as the
\* very first call, a positioning call right after end().
C4_OrderEnforced ==
    [][(/\ calls' # <<>>
        /\ \/ Latest.op = "begin" /\ calls # <<>> /\ calls[1].op = "begin"
           \/ /\ Latest.op \in {"move_common", "move_rapid", "draw", "safety"}
              /\ (calls = <<>> \/ calls[1].op = "end"))
       => gcodes' = <<>>]_vars

\* C5: a raster with zero rows or zero columns is rejected before any line is
\* produced, and generate() never returns a stream for it.
C5_EmptyRasterRejected ==
    (rows = 0 \/ cols = 0) => (gcodes = <<>> /\ pc # "done")

\* C6: for a raster with exactly one on sample, at (r, c), generate() makes
\* exactly two positioning requests, a touch-down and then a draw, both to
\* x = c and y = r, and each emits one instruction.
C6_SinglePixel ==
    (pc = "done" /\ Cardinality(OnPositions) = 1) =>
        LET p == CHOOSE q \in OnPositions : TRUE
        IN  /\ Len(calls) = 2
            /\ calls[1].op = "move_common"
            /\ calls[2].op = "draw"
            /\ \A i \in 1..2 :
                  /\ calls[i].x = Some(p[2])
                  /\ calls[i].y = Some(p[1])
                  /\ calls[i].n = 1
            /\ Cardinality(BodyPositioning) = 2

\* C7: a run that ends at the last column of row r is closed within row r:
\* once the scan has left row r, a draw request to (x = last column, y = r)
\* has been made, before any request of a later row, and the scanner is not
\* recording when the next row starts.
C7_LastColumnCloses ==
    \A r \in 0..(rows - 1) :
        (pc \in {"run", "done"} /\ cols >= 1 /\ row > r /\ Pixel(r, cols - 1) = ON) =>
            /\ \E i \in 1..Len(calls) :
                  /\ calls[i].op = "draw"
                  /\ calls[i].x = Some(cols - 1)
                  /\ calls[i].y = Some(r)
                  /\ \A j \in 1..(i - 1) : calls[j].y[1] <= r
            /\ (row = r + 1 /\ col = 0) => ~recording

\* C8: for every row whose samples are all on, whatever the other rows hold,
\* exactly two requests carry that row's y, a touch-down at x = 0 and a draw
\* at x = cols - 1, and each emits one instruction.
C8_FullRow ==
    \A r \in 0..(rows - 1) :
        (pc = "done" /\ cols >= 1 /\ \A c \in 0..(cols - 1) : Pixel(r, c) = ON) =>
            LET mine == CallsOfRow(r)
            IN  /\ Len(mine) = 2
                /\ mine[1].op = "move_common" /\ mine[1].x = Some(0)
                /\ mine[1].z = Some(TOUCH_DOWN) /\ mine[1].n = 1
                /\ mine[2].op = "draw" /\ mine[2].x = Some(cols - 1)
                /\ mine[2].n = 1

\* C9: for a raster whose samples are all off, no positioning request is ever
\* made, and the stream generate() returns is exactly the pre-amble, the
\* origin reset, the program stop and the postamble.
C9_AllOff ==
    (OnPositions = {}) =>
        /\ calls = <<>>
        /\ \A i \in 1..Len(gcodes) : ~IsPositioning(gcodes[i])
        /\ pc = "done" =>
              gcodes = <<PreambleLine, OriginResetLine, ProgramStopLine, PostambleLine>>

\* C9 witness: generate() has returned for a full-size raster with no on sample
C9_Witness ==
    pc = "done" /\ rows = MaxRows /\ cols = MaxCols /\ OnPositions = {}

\* C10: after draw(_x, _y, _z) with a tool height _z = h, the last emitted
\* tool height is h, and the instruction carries Z with the value h exactly
\* when h differs from the previous tool height.
C10_DrawUsesHeight ==
    [][(calls' # <<>> /\ Latest.op = "draw" /\ Latest.z # None) =>
        /\ last_z' = Latest.z
        /\ (Latest.z # last_z) <=>
              (gcodes' # <<>> /\ HasField(gcodes'[1], "Z", Latest.z[1]))
      ]_vars

\* the step is a call of the same method with the same arguments as the call
\* before it
SameCallAgain ==
    /\ calls # <<>>
    /\ calls' # <<>>
    /\ Latest.op = calls[1].op
    /\ Latest.x = calls[1].x
    /\ Latest.y = calls[1].y
    /\ Latest.z = calls[1].z
    /\ Latest.f = calls[1].f

\* the target of the latest call differs from the emitter's state before it
TargetDiffers ==
    \/ Effective(Latest.x, last_x) # last_x
    \/ Effective(Latest.y, last_y) # last_y
    \/ Effective(Latest.z, last_z) # last_z
    \/ Effective(Latest.f, last_f) # last_f

\* C11: a positioning call that repeats the call before it (same method, same
\* target) appends no line and leaves last_x, last_y, last_z and last_f as
\* they were; and a positioning call whose target differs from the state
\* before it appends exactly one instruction.
C11_Idempotent ==
    [][(calls' # <<>> /\ Latest.op \in {"move_common", "move_rapid", "draw"}) =>
        /\ SameCallAgain =>
              (gcodes' = <<>> /\ UNCHANGED <<last_x, last_y, last_z, last_f>>)
        /\ TargetDiffers => Len(gcodes') = 1
      ]_vars

\* C11, the repeated call alone: it is silent for move_common, move_rapid and
\* draw alike.
C11_RepeatIsSilent ==
    [][(SameCallAgain /\ Latest.op \in {"move_common", "move_rapid", "draw"}) =>
          (gcodes' = <<>> /\ UNCHANGED <<last_x, last_y, last_z, last_f>>)
      ]_vars

\* the mnemonic each positioning method writes
Mnemonic(op) == IF op \in {"move_rapid", "safety"} THEN "G0" ELSE "G1"

\* the part of an instruction for one field: its letter and the new value with
\* four fractional digits when the value changed in the step, nothing otherwise
FieldPart(letter, before, after) ==
    IF after # before
    THEN <<" " \o letter \o ToString(after[1]) \o ".0000">>
    ELSE <<>>

\* C12: every instruction a positioning call emits is its mnemonic (G0 for
\* move_rapid and safety, G1 for move_common and draw) followed by the fields
\* whose value changed, and only those, in the order X, Y, Z, F, each once and
\* each with four fractional digits.
C12_FixedFieldOrder ==
    [][(/\ calls' # <<>>
        /\ Latest.op \in {"move_common", "move_rapid", "draw", "safety"}
        /\ gcodes' # <<>>) =>
          gcodes' = << <<Mnemonic(Latest.op)>>
                       \o FieldPart("X", last_x, last_x')
                       \o FieldPart("Y", last_y, last_y')
                       \o FieldPart("Z", last_z, last_z')
                       \o FieldPart("F", last_f, last_f')
                       \o <<"\r\n">> >>
      ]_vars

\* C12 witness: a rapid move has emitted an instruction carrying all four fields
C12_Witness ==
    /\ calls # <<>>
    /\ calls[1].op = "move_rapid"
    /\ gcodes # <<>>
    /\ Len(gcodes[1]) = 6

\* C13: for the raster [[0,255,255,0],[0,0,0,0]] (safety_height = 1)
\* generate() returns exactly the pre-amble, the origin reset, a G1 line with
\* X1.0000 Y0.0000 and the touch-down Z, a G1 line with X2.0000 and the draw Z
\* and no Y, the program stop and the postamble.
C13_Scenario ==
    (image = ScenarioImage /\ pc = "done") =>
        gcodes = << PreambleLine,
                    OriginResetLine,
                    <<"G1", " X1.0000", " Y0.0000",
                      " Z" \o ToString(TOUCH_DOWN) \o ".0000", "\r\n">>,
                    <<"G1", " X2.0000", " Z" \o ToString(DRAW) \o ".0000", "\r\n">>,
                    ProgramStopLine,
                    PostambleLine >>

\* C13 witness: generate() has returned for the scenario's raster
C13_Witness == image = ScenarioImage /\ pc = "done" /\ safety_height = 1

\* C14: safety() appends the single line "G0 Z<safety_height>" when the last
\* tool height differs from safety_height and nothing otherwise; either way
\* the last tool height becomes safety_height and last_x, last_y and last_f
\* stay as they were.
C14_SafetyIsRapidZ ==
    [][(calls' # <<>> /\ Latest.op = "safety") =>
        /\ gcodes' = IF last_z # Some(safety_height)
                     THEN << <<"G0", " Z" \o ToString(safety_height) \o ".0000",
                               "\r\n">> >>
                     ELSE <<>>
        /\ last_z' = Some(safety_height)
        /\ UNCHANGED <<last_x, last_y, last_f>>
      ]_vars

\* C14 witness: safety() has lifted the tool from another height, with x, y
\* and the feed rate set
C14_Witness ==
    /\ calls # <<>>
    /\ calls[1].op = "safety"
    /\ calls[1].n = 1
    /\ last_x # None /\ last_y # None /\ last_f # None

\* the strokes of the scan: the places in calls of a touch-down request
\* followed by a draw request
Strokes ==
    {i \in 1..(Len(calls) - 1) :
        calls[i].op = "move_common" /\ calls[i + 1].op = "draw"}

\* C15: every stroke covers on samples only: between the column of its
\* touch-down and the column of its draw every sample of the row is on, and
\* the sample after the draw's column is off or the draw is at the last column.
C15_StrokesCoverOn ==
    \A i \in Strokes :
        LET r == calls[i].y[1]
            s == calls[i].x[1]
            e == calls[i + 1].x[1]
        IN  /\ s <= e
            /\ \A c \in s..e : Pixel(r, c) = ON
            /\ e = cols - 1 \/ Pixel(r, e + 1) = OFF

\* C16: recording is false whenever the scan of a row starts, and every draw
\* request has the row of the touch-down request that opened its stroke.
C16_RunsStayInRow ==
    /\ (pc = "run" /\ row < rows /\ col = 0) => ~recording
    /\ \A i \in Strokes : calls[i + 1].y = calls[i].y

\* C17: the requests of the scan alternate, touch-down first, each emitting
\* one instruction, and when generate() has returned every touch-down has been
\* followed by its draw.
C17_NoOpenStroke ==
    /\ \A i \in 1..Len(calls) :
          /\ calls[i].op = IF i % 2 = 1 THEN "move_common" ELSE "draw"
          /\ calls[i].n = 1
    /\ pc = "done" => Len(calls) % 2 = 0

\* C17, the alternation alone: it holds, an open stroke at the end apart.
C17_Alternates ==
    \A i \in 1..Len(calls) :
        /\ calls[i].op = IF i % 2 = 1 THEN "move_common" ELSE "draw"
        /\ calls[i].z = IF i % 2 = 1 THEN Some(TOUCH_DOWN) ELSE Some(DRAW)
        /\ calls[i].n = 1

\* the four tracked values after the step are the effective values of the
\* latest call
StateIsTarget ==
    /\ last_x' = Effective(Latest.x, last_x)
    /\ last_y' = Effective(Latest.y, last_y)
    /\ last_z' = Effective(Latest.z, last_z)
    /\ last_f' = Effective(Latest.f, last_f)

\* C18: after every positioning call each of last_x, last_y, last_z, last_f
\* equals the call's effective value for the field (the value given, or the
\* previous one when none was given), whether or not a line was emitted.
C18_StateIsPosition ==
    [][(calls' # <<>> /\ Latest.op \in {"move_common", "move_rapid", "draw"}) =>
          StateIsTarget]_vars

\* C18, without draw(): the statement holds of move_common and move_rapid.
C18_HoldsForMoves ==
    [][(calls' # <<>> /\ Latest.op \in {"move_common", "move_rapid"}) =>
          StateIsTarget]_vars

\* C19: generate() makes no rapid move: every request of the scan is a
\* move_common or a draw, each emits one G1 instruction, and no line of the
\* stream is a G0 instruction.
C19_NoRapidInStream ==
    /\ \A i \in 1..Len(calls) : calls[i].op \in {"move_common", "draw"}
    /\ \A i \in 1..Len(gcodes) :
          /\ Head(gcodes[i]) # "G0"
          /\ IsPositioning(gcodes[i]) => Head(gcodes[i]) = "G1"
    /\ Cardinality({i \in 1..Len(gcodes) : Head(gcodes[i]) = "G1"}) = Len(calls)
    /\ last_gcode \in {None, Some("G1")}

\* C19 witness: generate() has returned a stream with two strokes, the travel
\* between them included
C19_Witness == pc = "done" /\ Len(calls) >= 4

\* the mnemonic last written is not the one the latest call would write
OtherMnemonic ==
    /\ last_gcode # None
    /\ last_gcode # Some(Mnemonic(Latest.op))

\* C20: a call whose target equals the emitter's position, made with the
\* mnemonic other than the one last written (a rapid move after a drawing one,
\* or the reverse), appends nothing and leaves last_gcode alone; last_gcode
\* changes only in a step that emits a line, to the mnemonic of that line.
C20_MnemonicAloneSilent ==
    [][(calls' # <<>> /\ Latest.op \in {"move_common", "move_rapid", "draw"}) =>
        /\ (~TargetDiffers /\ OtherMnemonic) =>
              (gcodes' = <<>> /\ last_gcode' = last_gcode)
        /\ last_gcode' # last_gcode => gcodes' # <<>>
        /\ gcodes' # <<>> => last_gcode' = Some(Head(gcodes'[1]))
      ]_vars

\* C20, without draw(): the statement holds of move_common and move_rapid,
\* and last_gcode follows the emitted lines for every method.
C20_HoldsForMoves ==
    [][(calls' # <<>> /\ Latest.op \notin {"begin", "end"}) =>
        /\ (/\ Latest.op \in {"move_common", "move_rapid"}
            /\ ~TargetDiffers
            /\ OtherMnemonic) =>
              (gcodes' = <<>> /\ last_gcode' = last_gcode)
        /\ last_gcode' # last_gcode => gcodes' # <<>>
        /\ gcodes' # <<>> => last_gcode' = Some(Head(gcodes'[1]))
      ]_vars

\* the emitter is as __init__ left it
Untouched == NewGCode

\* the step is the first positioning call after a begin() on an untouched
\* emitter
FirstAfterBegin ==
    /\ calls # <<>>
    /\ calls[1].op = "begin"
    /\ Untouched
    /\ calls' # <<>>
    /\ Latest.op \in {"move_common", "move_rapid", "draw"}

\* the latest call appended one line that carries a field for every argument
\* given.  X and Y carry the values given; so do Z and F in move_common and
\* move_rapid, while the Z field of draw() carries the height draw() hands on.
EmitsAllGiven ==
    (Latest.x # None \/ Latest.y # None \/ Latest.z # None \/ Latest.f # None) =>
        /\ Len(gcodes') = 1
        /\ Head(gcodes'[1]) = Mnemonic(Latest.op)
        /\ Latest.x # None => HasField(gcodes'[1], "X", Latest.x[1])
        /\ Latest.y # None => HasField(gcodes'[1], "Y", Latest.y[1])
        /\ Latest.z # None =>
              HasField(gcodes'[1], "Z",
                       IF Latest.op = "draw" THEN DrawHeight(Latest.z)[1]
                                             ELSE Latest.z[1])
        /\ Latest.f # None => HasField(gcodes'[1], "F", Latest.f[1])

\* C21: begin() and end() leave last_x, last_y, last_z, last_f and last_gcode
\* as they were, so after begin() on an untouched emitter the tracked position
\* is still unset, not (0, 0), and the first positioning call after it emits a
\* field for every argument given, X0.0000 and Y0.0000 for the origin.
C21_FramingKeepsState ==
    [][/\ (calls' # <<>> /\ Latest.op \in {"begin", "end"}) =>
              UNCHANGED emitter_vars
       /\ (calls' # <<>> /\ Latest.op = "begin" /\ Untouched) =>
              (last_x' # Some(0) /\ last_y' # Some(0))
       /\ FirstAfterBegin => EmitsAllGiven
      ]_vars

\* C21 witness: begin() has written the preamble and the origin reset, and
\* the emitter is still as __init__ left it
C21_Witness ==
    /\ calls # <<>>
    /\ calls[1].op = "begin"
    /\ calls[1].n = 2
    /\ gcodes = <<PreambleLine, OriginResetLine>>
    /\ Untouched

\* C21, the step after: a move to the origin right after begin() has written
\* both coordinates
C21_OriginEmitted ==
    /\ calls # <<>>
    /\ calls[1].op = "move_common"
    /\ calls[1].x = Some(0) /\ calls[1].y = Some(0)
    /\ calls[1].z = None /\ calls[1].f = None
    /\ gcodes = << <<"G1", " X0.0000", " Y0.0000", "\r\n">> >>
    /\ last_z = None /\ last_f = None

====
